---- MODULE Spec2Model ----
(***************************************************************************)
(* Zyndle AI frontend: the AuthService singleton (authService.js), the App *)
(* screen controller and the VideoWorkspace component (App.jsx), modelled  *)
(* as state machines over the browser's single-threaded event loop.  Every *)
(* action is one synchronous turn: a user event up to its first await, or  *)
(* the continuation that runs when a fetch settles.                        *)
(***************************************************************************)
EXTENDS Naturals, Integers, Sequences, FiniteSets, Bags, TLC

\* ------------------------------------------------------------------ bounds
\* most requests in flight at once
MaxNet == 2

\* most questions in a /quiz response
MaxQuestions == 2
\* most /quiz requests one VideoWorkspace is followed through
MaxQuizFetches == 3
\* most entries of the chat log
MaxChat == 4
\* most questions of a quiz that is graded
MaxGraded == 3
\* most entries of the notes list
MaxNotes == 2
\* most list-notes requests one VideoWorkspace is followed through
MaxNotesFetches == 3

\* ------------------------------------------------------------- value sets
\* JavaScript null
NULL == "null"
\* access_token values the backend may issue
Tokens == {"t1", "t2"}
\* user identities the backend may return
Users == {"u1", "u2"}
\* how a fetch settles: 2xx, 401, another error status whose body is JSON,
\* another error status whose body is not JSON, or a transport failure
Statuses == {"ok", "unauthorized", "errJson", "errNoJson", "netfail"}

\* option indices of a quiz question
Options == {0, 1}
\* data.questions of a /quiz response: each question with its correct_answer
RECURSIVE QuestionLists(_)
QuestionLists(n) ==
    IF n = 0 THEN {<<>>}
    ELSE QuestionLists(n - 1) \cup
         {Append(qs, [correct_answer |-> c]) :
             qs \in {l \in QuestionLists(n - 1) : Len(l) = n - 1}, c \in Options}
\* JavaScript undefined held by quizQuestions after setQuizQuestions of a body
\* without a questions field; reading its length throws
Undefined == <<[correct_answer |-> -1]>>
\* the assistant entry appended in handleChat's catch
Fallback == "Sorry, I encountered an error. Please try again."

\* ids the notes store assigns
NoteIds == {"n1", "n2"}
\* a note record as the store returns it
Note(id, content) == [id |-> id, content |-> content]
\* what a note panel shows of a JSON error body: it has no id and no content
ErrorBody == Note("undefined", "undefined")
\* data.notes of a list response: stored notes, each id once
NoteLists ==
    {l \in UNION {[1 .. n -> {Note(id, "n") : id \in NoteIds}] :
                     n \in 0 .. Cardinality(NoteIds)} :
        \A i, j \in DOMAIN l : l[i].id = l[j].id => i = j}

\* error messages thrown by AuthService
NoTokenError == "No authentication token"
ExpiredError == "Authentication expired"
NetworkError == "Failed to fetch"
RejectedError == "rejected"

VARIABLES
    \* authService.js
    token,          \* authService.token
    user,           \* authService.user
    localStorage,   \* the two keys authToken and user
    net,            \* bag of fetches in flight
    result,         \* outcome of the AuthService call that completed last
    sessionEnd,     \* how the session last ended, "none" since setAuthData()
    \* App
    youtubeUrl, isAnalyzing, videoData, showVideoInput, showAuth,
    showProgress, authMode, demoMode,
    crashed,        \* a render threw and React unmounted the tree
    \* AuthPage
    currentMode, authIsLoading,
    \* ProgressDashboard
    progress, insights, progIsLoading,
    \* VideoWorkspace
    activeTab, chatMessage, chatHistory, quizQuestions, quizAnswers,
    quizSubmitted, quizScore, isLoadingQuiz, notes, newNote, isLoadingNotes,
    notesFetches,   \* list-notes requests issued by the mounted VideoWorkspace
    notesLoaded,    \* a list-notes request of this workspace has succeeded
    notesRefetches, \* list-notes requests issued after one had succeeded
    deletedIds,     \* ids whose delete call the store has confirmed
    quizFetches,    \* /quiz requests issued by the mounted VideoWorkspace
    quizCached      \* setQuizQuestions got a non-empty list in this workspace

authVars == <<token, user, localStorage, sessionEnd>>
appVars == <<youtubeUrl, isAnalyzing, videoData, showVideoInput, showAuth,
             showProgress, authMode, demoMode, crashed>>
authPageVars == <<currentMode, authIsLoading>>
progVars == <<progress, insights, progIsLoading>>
chatVars == <<chatMessage, chatHistory>>
quizVars == <<quizQuestions, quizAnswers, quizSubmitted, quizScore,
              isLoadingQuiz, quizFetches, quizCached>>
notesVars == <<notes, newNote, isLoadingNotes, notesFetches, notesLoaded,
               notesRefetches, deletedIds>>
wsVars == <<activeTab, chatVars, quizVars, notesVars>>
uiVars == <<appVars, authPageVars, progVars, wsVars>>
vars == <<authVars, net, result, uiVars>>

\* ------------------------------------------------------------ JSON helpers
\* JSON.stringify(value) as stored under the 'user' key
JSONstringify(v) == "{" \o v \o "}"
\* JSON.parse(text); JSON.parse(null) is null
JSONparse(s) ==
    IF s = NULL THEN NULL ELSE CHOOSE v \in Users : JSONstringify(v) = s

\* localStorage.getItem(key)
getItem(key) == localStorage[key]

\* a fetch in flight: the operation that issued it, the bearer it carries,
\* whether the component that awaits it has been left since, and the values
\* its continuation closed over
Req(op, tok, stale, arg) == [op |-> op, tok |-> tok, stale |-> stale, arg |-> arg]
Request(op, tok) == Req(op, tok, FALSE, <<>>)
InFlight == BagCardinality(net)
Send(r) == net' = net (+) SetToBag({r})
Settle(r) == net' = net (-) SetToBag({r})

\* the outcome of a completed call: what it returned or the message it threw,
\* and the response status it saw ("none" when it issued no request)
Returned(op, v, status) ==
    [op |-> op, how |-> "returned", val |-> v, who |-> NULL, status |-> status]
Threw(op, msg, status) ==
    [op |-> op, how |-> "threw", val |-> msg, who |-> NULL, status |-> status]
\* register / login return the response data: access_token and the identity
ReturnedData(op, access_token, u, status) ==
    [op |-> op, how |-> "returned", val |-> access_token, who |-> u,
     status |-> status]

\* --------------------------------------------------------------- AuthService
\* a setAuthData that does not write the user key
setAuthDataSkipsUserKey(access_token, u) ==
    /\ token' = access_token
    /\ user' = u
    /\ localStorage' = [localStorage EXCEPT !.authToken = access_token]
    /\ sessionEnd' = "none"

\* setAuthData(data)
setAuthData(access_token, u) ==
    /\ token' = access_token
    /\ user' = u
    /\ localStorage' = [authToken |-> access_token, user |-> JSONstringify(u)]
    /\ sessionEnd' = "none"

\* logout() that forgets to drop the in-memory token
logoutKeepsToken(why) ==
    /\ user' = NULL
    /\ localStorage' = [authToken |-> NULL, user |-> NULL]
    /\ sessionEnd' = why
    /\ UNCHANGED token

\* logout(); why names the caller: "logout" for a direct call, "expired" for
\* authenticatedFetch on a 401, "invalid" for getCurrentUser
logout(why) ==
    /\ token' = NULL
    /\ user' = NULL
    /\ localStorage' = [authToken |-> NULL, user |-> NULL]
    /\ sessionEnd' = why

\* isAuthenticated()
isAuthenticated == token # NULL

\* authenticatedFetch: the guard of its first statement
HasToken == token # NULL

\* a status test that takes every failure for an expired session
ExpiresSessionOnAnyFailure(status) == status # "ok"

\* authenticatedFetch: what the code after the await does with the response
\* status; TRUE when the session is cleared
ExpiresSession(status) == status = "unauthorized"

\* authenticatedFetch, continuation after the await: the session effect
authenticatedFetchSettled(status) ==
    IF ExpiresSession(status) THEN logout("expired") ELSE UNCHANGED authVars

\* authenticatedFetch, continuation after the await: what the caller gets
authenticatedFetchOutcome(op, status) ==
    CASE status = "netfail" -> Threw(op, NetworkError, status)
      [] ExpiresSession(status) -> Threw(op, ExpiredError, status)
      [] OTHER -> Returned(op, "response", status)

\* ------------------------------------------- AuthService driven by a caller
\* register(...) / login(...) up to the await of fetch
AuthCall(op) ==
    /\ op \in {"register", "login"}
    /\ InFlight < MaxNet
    /\ Send(Request(op, NULL))
    /\ UNCHANGED <<authVars, result>>

Register == AuthCall("register") /\ UNCHANGED uiVars
Login == AuthCall("login") /\ UNCHANGED uiVars

\* register / login without the response.ok test: any response is stored
registerLoginSettledNoOkCheck(status, access_token, u) ==
    IF status # "netfail" THEN setAuthData(access_token, u)
                          ELSE UNCHANGED authVars

\* register / login after the await, the session effect: only response.ok
\* reaches setAuthData, every other outcome throws first
registerLoginSettled(status, access_token, u) ==
    IF status = "ok" THEN setAuthData(access_token, u) ELSE UNCHANGED authVars

\* register / login after the await: what the caller gets
registerLoginOutcome(op, status, access_token, u) ==
    CASE status = "ok" -> ReturnedData(op, access_token, u, status)
      [] status = "netfail" -> Threw(op, NetworkError, status)
      [] OTHER -> Threw(op, RejectedError, status)

AuthSettled(r, status, access_token, u) ==
    /\ r.op \in {"register", "login"}
    /\ Settle(r)
    /\ registerLoginSettled(status, access_token, u)
    /\ result' = registerLoginOutcome(r.op, status, access_token, u)

RegisterLoginResponse ==
    \E r \in BagToSet(net), status \in Statuses, t \in Tokens, u \in Users :
        AuthSettled(r, status, t, u) /\ UNCHANGED uiVars

\* getCurrentUser() up to the await of fetch
GetCurrentUser ==
    /\ UNCHANGED uiVars
    /\ IF ~HasToken
         THEN /\ result' = Returned("getCurrentUser", NULL, "none")
              /\ UNCHANGED <<authVars, net>>
         ELSE /\ InFlight < MaxNet
              /\ Send(Request("getCurrentUser", token))
              /\ UNCHANGED <<authVars, result>>

\* getCurrentUser() that returns null on a failure but keeps the session
GetCurrentUserSettledNoLogout(r, status, u) ==
    /\ r.op = "getCurrentUser"
    /\ Settle(r)
    /\ IF status = "ok"
         THEN /\ user' = u
              /\ localStorage' = [localStorage EXCEPT !.user = JSONstringify(u)]
              /\ UNCHANGED <<token, sessionEnd>>
              /\ result' = Returned("getCurrentUser", u, status)
         ELSE /\ UNCHANGED authVars
              /\ result' = Returned("getCurrentUser", NULL, status)

\* getCurrentUser() after the await
GetCurrentUserSettled(r, status, u) ==
    /\ r.op = "getCurrentUser"
    /\ Settle(r)
    /\ IF status = "ok"
         THEN /\ user' = u
              /\ localStorage' = [localStorage EXCEPT !.user = JSONstringify(u)]
              /\ UNCHANGED <<token, sessionEnd>>
              /\ result' = Returned("getCurrentUser", u, status)
         ELSE /\ logout("invalid")
              /\ result' = Returned("getCurrentUser", NULL, status)

GetCurrentUserResponse ==
    \E r \in BagToSet(net), status \in Statuses, u \in Users :
        GetCurrentUserSettled(r, status, u) /\ UNCHANGED uiVars

\* logout() called directly
Logout ==
    /\ logout("logout")
    /\ UNCHANGED <<net, result, uiVars>>

\* authenticatedFetch(url, options) up to the await of fetch
authenticatedFetchCall(op) ==
    IF ~HasToken
      THEN /\ result' = Threw(op, NoTokenError, "none")
           /\ UNCHANGED <<authVars, net>>
      ELSE /\ InFlight < MaxNet
           /\ Send(Request(op, token))
           /\ UNCHANGED <<authVars, result>>

AuthenticatedFetch ==
    authenticatedFetchCall("authenticatedFetch") /\ UNCHANGED uiVars

\* authenticatedFetch after the await
AuthenticatedFetchResponse ==
    \E r \in BagToSet(net), status \in Statuses :
        /\ r.op = "authenticatedFetch"
        /\ Settle(r)
        /\ authenticatedFetchSettled(status)
        /\ result' = authenticatedFetchOutcome(r.op, status)
        /\ UNCHANGED uiVars

\* new AuthService() on a page load: in-flight callbacks of the old page die
Reload ==
    /\ token' = getItem("authToken")
    /\ user' = JSONparse(getItem("user"))
    /\ net' = EmptyBag
    /\ result' = Returned("constructor", NULL, "none")
    /\ UNCHANGED <<localStorage, sessionEnd, uiVars>>

\* useState initial values of App, AuthPage, ProgressDashboard, VideoWorkspace
InitApp ==
    /\ youtubeUrl = "" /\ isAnalyzing = FALSE /\ videoData = NULL
    /\ showVideoInput = FALSE /\ showAuth = FALSE /\ showProgress = FALSE
    /\ authMode = "signin" /\ demoMode = FALSE /\ crashed = FALSE
InitAuthPage == currentMode = "signin" /\ authIsLoading = FALSE
InitProgress == progress = NULL /\ insights = NULL /\ progIsLoading = TRUE
InitWorkspace ==
    /\ activeTab = "summary"
    /\ chatMessage = "" /\ chatHistory = <<>>
    /\ quizQuestions = <<>> /\ quizAnswers = <<>> /\ quizSubmitted = FALSE
    /\ quizScore = 0 /\ isLoadingQuiz = FALSE /\ quizFetches = 0
    /\ quizCached = FALSE
    /\ notes = <<>> /\ newNote = "" /\ isLoadingNotes = FALSE
    /\ notesFetches = 0 /\ notesLoaded = FALSE /\ notesRefetches = 0
    /\ deletedIds = {}
InitUI == InitApp /\ InitAuthPage /\ InitProgress /\ InitWorkspace

\* what the durable store can hold when the page is first loaded
StoredSessions ==
    {[authToken |-> NULL, user |-> NULL]} \cup
    {[authToken |-> t, user |-> JSONstringify(u)] : t \in Tokens, u \in Users}

InitAuth ==
    /\ localStorage \in StoredSessions
    /\ token = getItem("authToken")
    /\ user = JSONparse(getItem("user"))
    /\ net = EmptyBag
    /\ result = Returned("constructor", NULL, "none")
    /\ sessionEnd = "none"
    /\ InitUI

NextAuth ==
    \/ Register
    \/ Login
    \/ RegisterLoginResponse
    \/ GetCurrentUser
    \/ GetCurrentUserResponse
    \/ Logout
    \/ AuthenticatedFetch
    \/ AuthenticatedFetchResponse
    \/ Reload

SpecAuth == InitAuth /\ [][NextAuth]_vars

\* AuthService constructed over an empty store
InitFresh == InitAuth /\ token = NULL
SpecFresh == InitFresh /\ [][NextAuth]_vars

\* ----------------------------------------------------------------- App
\* the early returns of App's render: which component is on screen; a render
\* that threw leaves a blank page
Screen ==
    IF crashed THEN "Blank"
    ELSE IF videoData # NULL THEN "Workspace"
    ELSE IF showAuth THEN "Auth"
    ELSE IF showProgress THEN "Progress"
    ELSE IF showVideoInput THEN "VideoInput"
    ELSE "Home"

\* the component whose code awaits a fetch issued by this operation
Owner(op) ==
    CASE op \in {"register", "login"} -> "Auth"
      [] op \in {"progress", "insights"} -> "Progress"
      [] op = "analyze" -> "VideoInput"
      [] op \in {"chat", "quiz", "recordQuiz", "notes", "saveNote",
                 "deleteNote"} -> "Workspace"
      [] OTHER -> "caller"

\* the fetches in flight once the component on screen `left` is gone: their
\* continuations still run, but the component they belong to is unmounted
Abandon(b, left) ==
    LET mark(r) == IF Owner(r.op) = left THEN [r EXCEPT !.stale = TRUE] ELSE r
        T == {mark(r) : r \in BagToSet(b)}
    IN  [t \in T |->
            IF Owner(t.op) = left
              THEN CopiesIn(t, b) + CopiesIn([t EXCEPT !.stale = FALSE], b)
              ELSE CopiesIn(t, b)]

\* AuthPage after a render of App: useState(mode) on mount, state kept while
\* it stays mounted, gone when another component is returned
AuthPageRendered(mode, loading) ==
    IF Screen' # "Auth"
      THEN currentMode' = "signin" /\ authIsLoading' = FALSE
      ELSE IF Screen # "Auth"
        THEN currentMode' = authMode' /\ authIsLoading' = FALSE
        ELSE currentMode' = mode /\ authIsLoading' = loading

\* ProgressDashboard after a render of App; its mount effect runs
\* loadProgressData, whose first authenticatedFetch throws without a token
ProgressRendered ==
    IF Screen' = "Progress" /\ Screen = "Progress"
      THEN UNCHANGED progVars
      ELSE /\ progress' = NULL
           /\ insights' = NULL
           /\ progIsLoading' = IF Screen' = "Progress" THEN token' # NULL ELSE TRUE

\* VideoWorkspace after a render of App
WorkspaceRendered ==
    IF Screen' = "Workspace" /\ Screen = "Workspace"
      THEN UNCHANGED wsVars
      ELSE /\ activeTab' = "summary"
           /\ chatMessage' = "" /\ chatHistory' = <<>>
           /\ quizQuestions' = <<>> /\ quizAnswers' = <<>>
           /\ quizSubmitted' = FALSE /\ quizScore' = 0
           /\ isLoadingQuiz' = FALSE /\ quizFetches' = 0
           /\ quizCached' = FALSE
           /\ notes' = <<>> /\ newNote' = "" /\ isLoadingNotes' = FALSE
           /\ notesFetches' = 0 /\ notesLoaded' = FALSE
           /\ notesRefetches' = 0 /\ deletedIds' = {}

\* the fetches in flight after a render of App
NetRendered(b) ==
    IF Screen' = Screen THEN b
    ELSE IF Screen' = "Progress" /\ token' # NULL
      THEN Abandon(b, Screen) (+) SetToBag({Request("progress", token')})
      ELSE Abandon(b, Screen)

\* App re-renders after its state changed: b is the bag of fetches once the
\* handler itself is done, mode and loading the AuthPage state it leaves
Rerender(b, mode, loading) ==
    /\ AuthPageRendered(mode, loading)
    /\ ProgressRendered
    /\ WorkspaceRendered
    /\ net' = NetRendered(b)
    /\ BagCardinality(net') <= MaxNet

\* the URL input's onChange
SetYoutubeUrl ==
    /\ Screen = "VideoInput"
    /\ youtubeUrl' \in {"", "url"} \ {youtubeUrl}
    /\ UNCHANGED <<isAnalyzing, videoData, showVideoInput, showAuth,
                   showProgress, authMode, demoMode, crashed>>
    /\ UNCHANGED <<authVars, net, result, authPageVars, progVars, wsVars>>

\* handleAnalyze up to the await; the button is disabled while isAnalyzing.
\* Without a token authenticatedFetch throws 'No authentication token', the
\* catch does not redirect and the finally clears the flag again.
HandleAnalyze ==
    /\ Screen = "VideoInput"
    /\ ~isAnalyzing
    /\ youtubeUrl # ""
    /\ IF ~HasToken
         THEN UNCHANGED <<isAnalyzing, net>>
         ELSE /\ InFlight < MaxNet
              /\ isAnalyzing' = TRUE
              /\ Send(Request("analyze", token))
    /\ UNCHANGED <<youtubeUrl, videoData, showVideoInput, showAuth,
                   showProgress, authMode, demoMode, crashed>>
    /\ UNCHANGED <<authVars, result, authPageVars, progVars, wsVars>>

\* handleAnalyze after the await: response.json() of any JSON body goes to
\* setVideoData; a body without chapters makes VideoWorkspace's render throw
AnalyzeSettled(r, status) ==
    /\ r.op = "analyze"
    /\ authenticatedFetchSettled(status)
    /\ isAnalyzing' = FALSE
    /\ CASE status = "unauthorized" ->
              /\ showAuth' = TRUE
              /\ authMode' = "signin"
              /\ UNCHANGED <<videoData, crashed>>
         [] status = "ok" ->
              /\ videoData' = "analysis"
              /\ UNCHANGED <<showAuth, authMode, crashed>>
         [] status = "errJson" ->
              /\ videoData' = "errorBody"
              /\ crashed' = TRUE
              /\ UNCHANGED <<showAuth, authMode>>
         [] OTHER -> UNCHANGED <<videoData, showAuth, authMode, crashed>>
    /\ UNCHANGED <<youtubeUrl, showVideoInput, showProgress, demoMode, result>>
    /\ Rerender(net (-) SetToBag({r}), currentMode, authIsLoading)

AnalyzeResponse ==
    \E r \in BagToSet(net), status \in Statuses : AnalyzeSettled(r, status)

\* a handler that only sets App state
Navigation ==
    /\ UNCHANGED <<authVars, result>>
    /\ Rerender(net, currentMode, authIsLoading)

\* handleSignIn: the Sign In button of the signed-out Home page
HandleSignIn ==
    /\ Screen = "Home" /\ ~isAuthenticated
    /\ authMode' = "signin"
    /\ showAuth' = TRUE
    /\ UNCHANGED <<youtubeUrl, isAnalyzing, videoData, showVideoInput,
                   showProgress, demoMode, crashed>>
    /\ Navigation

\* handleGetStarted: the Get Started buttons of the signed-out Home page
HandleGetStarted ==
    /\ Screen = "Home" /\ ~isAuthenticated
    /\ authMode' = "register"
    /\ showAuth' = TRUE
    /\ UNCHANGED <<youtubeUrl, isAnalyzing, videoData, showVideoInput,
                   showProgress, demoMode, crashed>>
    /\ Navigation

\* handleShowProgress: View Progress on the signed-in Home page
HandleShowProgress ==
    /\ Screen = "Home" /\ isAuthenticated
    /\ showProgress' = TRUE
    /\ UNCHANGED <<youtubeUrl, isAnalyzing, videoData, showVideoInput,
                   showAuth, authMode, demoMode, crashed>>
    /\ Navigation

\* Continue Analysis / Continue Learning on the signed-in Home page
ContinueAnalysis ==
    /\ Screen = "Home" /\ isAuthenticated
    /\ showVideoInput' = TRUE
    /\ UNCHANGED <<youtubeUrl, isAnalyzing, videoData, showAuth,
                   showProgress, authMode, demoMode, crashed>>
    /\ Navigation

\* handleDemoMode: Try Demo Mode, on Home with or without a session
HandleDemoMode ==
    /\ Screen = "Home"
    /\ demoMode' = TRUE
    /\ videoData' = "demo"
    /\ UNCHANGED <<youtubeUrl, isAnalyzing, showVideoInput, showAuth,
                   showProgress, authMode, crashed>>
    /\ Navigation

\* a handleBackToHome that also resets the isAnalyzing flag
HandleBackToHomeResetsFlag ==
    /\ Screen \in {"Auth", "VideoInput", "Workspace", "Progress"}
    /\ showVideoInput' = FALSE
    /\ showAuth' = FALSE
    /\ showProgress' = FALSE
    /\ videoData' = NULL
    /\ youtubeUrl' = ""
    /\ isAnalyzing' = FALSE
    /\ UNCHANGED <<authMode, demoMode, crashed>>
    /\ Navigation

\* a handleBackToHome that leaves the analysis in place
HandleBackToHomeKeepsVideoData ==
    /\ Screen \in {"Auth", "VideoInput", "Workspace", "Progress"}
    /\ showVideoInput' = FALSE
    /\ showAuth' = FALSE
    /\ showProgress' = FALSE
    /\ youtubeUrl' = ""
    /\ UNCHANGED <<videoData, isAnalyzing, authMode, demoMode, crashed>>
    /\ Navigation

\* handleBackToHome: onBack of AuthPage, VideoWorkspace and
\* ProgressDashboard, and the Back to Home button of the URL screen
HandleBackToHome ==
    /\ Screen \in {"Auth", "VideoInput", "Workspace", "Progress"}
    /\ showVideoInput' = FALSE
    /\ showAuth' = FALSE
    /\ showProgress' = FALSE
    /\ videoData' = NULL
    /\ youtubeUrl' = ""
    /\ UNCHANGED <<isAnalyzing, authMode, demoMode, crashed>>
    /\ Navigation

\* a page load: module and component state start over, the durable store
\* stays, the old page's fetches are dropped
PageLoad ==
    /\ token' = getItem("authToken")'
    /\ user' = JSONparse(getItem("user"))'
    /\ net' = EmptyBag
    /\ youtubeUrl' = "" /\ isAnalyzing' = FALSE /\ videoData' = NULL
    /\ showVideoInput' = FALSE /\ showAuth' = FALSE /\ showProgress' = FALSE
    /\ authMode' = "signin" /\ demoMode' = FALSE /\ crashed' = FALSE
    /\ AuthPageRendered(currentMode, authIsLoading)
    /\ ProgressRendered
    /\ WorkspaceRendered
    /\ UNCHANGED result

\* Sign Out on the signed-in Home page: logout() then window.location.reload()
SignOut ==
    /\ Screen = "Home" /\ isAuthenticated
    /\ localStorage' = [authToken |-> NULL, user |-> NULL]
    /\ sessionEnd' = "logout"
    /\ PageLoad

\* the browser's reload
Refresh ==
    /\ UNCHANGED <<localStorage, sessionEnd>>
    /\ PageLoad

\* ------------------------------------------------------------- AuthPage
\* toggleMode
ToggleMode ==
    /\ Screen = "Auth"
    /\ currentMode' = IF currentMode = "signin" THEN "register" ELSE "signin"
    /\ UNCHANGED <<authIsLoading, authVars, net, result, appVars, progVars,
                   wsVars>>

\* AuthPage.handleSubmit up to the await; the submit button is disabled
\* while isLoading
HandleSubmit ==
    /\ Screen = "Auth"
    /\ ~authIsLoading
    /\ InFlight < MaxNet
    /\ authIsLoading' = TRUE
    /\ Send(Request(IF currentMode = "register" THEN "register" ELSE "login",
                    NULL))
    /\ UNCHANGED <<currentMode, authVars, result, appVars, progVars, wsVars>>

\* AuthPage.handleSubmit after the await: onSuccess is App's
\* handleAuthSuccess, which sets App state whether or not AuthPage is still
\* mounted; setIsLoading(false) only reaches a mounted AuthPage
SubmitSettled(r, status, access_token, u) ==
    /\ r.op \in {"register", "login"}
    /\ registerLoginSettled(status, access_token, u)
    /\ IF status = "ok"
         THEN showAuth' = FALSE /\ showVideoInput' = TRUE
         ELSE UNCHANGED <<showAuth, showVideoInput>>
    /\ UNCHANGED <<youtubeUrl, isAnalyzing, videoData, showProgress, authMode,
                   demoMode, crashed, result>>
    /\ Rerender(net (-) SetToBag({r}), currentMode,
                IF r.stale THEN authIsLoading ELSE FALSE)

SubmitResponse ==
    \E r \in BagToSet(net), status \in Statuses, t \in Tokens, u \in Users :
        SubmitSettled(r, status, t, u)

\* ---------------------------------------------------- ProgressDashboard
\* loadProgressData after its first await: a JSON body goes to setProgress
\* and the insights fetch follows; anything else is caught
ProgressSettled(r, status) ==
    /\ r.op = "progress"
    /\ authenticatedFetchSettled(status)
    /\ IF status \in {"ok", "errJson"}
         THEN /\ progress' = IF r.stale THEN progress
                             ELSE IF status = "ok" THEN "data" ELSE "errorBody"
              /\ IF ~HasToken
                   THEN /\ Settle(r)
                        /\ progIsLoading' = (r.stale /\ progIsLoading)
                   ELSE /\ net' = (net (-) SetToBag({r})) (+)
                                  SetToBag({Req("insights", token, r.stale, <<>>)})
                        /\ UNCHANGED progIsLoading
         ELSE /\ Settle(r)
              /\ progIsLoading' = (r.stale /\ progIsLoading)
              /\ UNCHANGED progress
    /\ UNCHANGED <<insights, result, appVars, authPageVars, wsVars>>

ProgressResponse ==
    \E r \in BagToSet(net), status \in Statuses : ProgressSettled(r, status)

\* loadProgressData after its second await; a body without favorite_topics
\* makes the dashboard's render throw
InsightsSettled(r, status) ==
    /\ r.op = "insights"
    /\ authenticatedFetchSettled(status)
    /\ IF ~r.stale /\ status = "errJson"
         THEN /\ crashed' = TRUE
              /\ progress' = NULL /\ insights' = NULL /\ progIsLoading' = TRUE
              /\ net' = Abandon(net (-) SetToBag({r}), "Progress")
         ELSE /\ Settle(r)
              /\ insights' = IF ~r.stale /\ status = "ok" THEN "data"
                             ELSE insights
              /\ progIsLoading' = (r.stale /\ progIsLoading)
              /\ UNCHANGED <<progress, crashed>>
    /\ UNCHANGED <<youtubeUrl, isAnalyzing, videoData, showVideoInput,
                   showAuth, showProgress, authMode, demoMode>>
    /\ UNCHANGED <<result, authPageVars, wsVars>>

InsightsResponse ==
    \E r \in BagToSet(net), status \in Statuses : InsightsSettled(r, status)

\* -------------------------------------------------------- VideoWorkspace
\* a render or an effect of VideoWorkspace reads quizQuestions.length
QuizRenderThrows(tab, questions) == tab = "quiz" /\ questions = Undefined

\* React unmounts the tree after a throw in VideoWorkspace: its state is
\* gone and the continuations of its fetches find no component
WorkspaceCrash(b) ==
    /\ crashed' = TRUE
    /\ activeTab' = "summary"
    /\ chatMessage' = "" /\ chatHistory' = <<>>
    /\ quizQuestions' = <<>> /\ quizAnswers' = <<>>
    /\ quizSubmitted' = FALSE /\ quizScore' = 0
    /\ isLoadingQuiz' = FALSE /\ quizFetches' = 0 /\ quizCached' = FALSE
    /\ notes' = <<>> /\ newNote' = "" /\ isLoadingNotes' = FALSE
    /\ notesFetches' = 0 /\ notesLoaded' = FALSE /\ notesRefetches' = 0
    /\ deletedIds' = {}
    /\ net' = Abandon(b, "Workspace")

\* a tab button's onClick and the two effects on [activeTab]: loadQuiz when
\* the quiz tab shows no questions, loadNotes when the notes tab shows no
\* notes; each sets its loading flag, and without a token authenticatedFetch
\* throws and the finally clears the flag again
SelectTab(tab) ==
    /\ Screen = "Workspace"
    /\ tab # activeTab
    /\ IF QuizRenderThrows(tab, quizQuestions)
         THEN WorkspaceCrash(net)
         ELSE /\ activeTab' = tab
              /\ UNCHANGED <<crashed, chatVars, quizQuestions, quizAnswers,
                             quizSubmitted, quizScore, quizCached, notes,
                             newNote, notesLoaded, deletedIds>>
              /\ CASE tab = "quiz" /\ quizQuestions = <<>> ->
                        /\ isLoadingQuiz' = HasToken
                        /\ IF HasToken
                             THEN /\ InFlight < MaxNet
                                  /\ quizFetches < MaxQuizFetches
                                  /\ Send(Request("quiz", token))
                                  /\ quizFetches' = quizFetches + 1
                             ELSE UNCHANGED <<net, quizFetches>>
                        /\ UNCHANGED <<isLoadingNotes, notesFetches,
                                       notesRefetches>>
                   [] tab = "notes" /\ notes = <<>> ->
                        /\ isLoadingNotes' = HasToken
                        /\ IF HasToken
                             THEN /\ InFlight < MaxNet
                                  /\ notesFetches < MaxNotesFetches
                                  /\ Send(Request("notes", token))
                                  /\ notesFetches' = notesFetches + 1
                                  /\ notesRefetches' =
                                        IF notesLoaded THEN notesRefetches + 1
                                        ELSE notesRefetches
                             ELSE UNCHANGED <<net, notesFetches,
                                              notesRefetches>>
                        /\ UNCHANGED <<isLoadingQuiz, quizFetches>>
                   [] OTHER ->
                        UNCHANGED <<net, isLoadingQuiz, quizFetches,
                                    isLoadingNotes, notesFetches,
                                    notesRefetches>>
    /\ UNCHANGED <<youtubeUrl, isAnalyzing, videoData, showVideoInput,
                   showAuth, showProgress, authMode, demoMode>>
    /\ UNCHANGED <<authVars, result, authPageVars, progVars>>

\* loadQuiz after the await: data.questions of any JSON body goes to
\* setQuizQuestions, the finally clears isLoadingQuiz; a continuation of an
\* unmounted VideoWorkspace changes no component state
QuizSettled(r, status, questions) ==
    /\ r.op = "quiz"
    /\ authenticatedFetchSettled(status)
    /\ LET loaded == CASE status = "ok" -> questions
                       [] status = "errJson" -> Undefined
                       [] OTHER -> quizQuestions
       IN  IF r.stale
             THEN /\ Settle(r)
                  /\ UNCHANGED <<crashed, wsVars>>
             ELSE IF QuizRenderThrows(activeTab, loaded)
               THEN WorkspaceCrash(net (-) SetToBag({r}))
               ELSE /\ Settle(r)
                    /\ quizQuestions' = loaded
                    /\ isLoadingQuiz' = FALSE
                    /\ quizCached' = (quizCached \/
                                       (status = "ok" /\ Len(questions) > 0))
                    /\ UNCHANGED <<crashed, activeTab, chatVars, quizAnswers,
                                   quizSubmitted, quizScore, quizFetches,
                                   notesVars>>
    /\ UNCHANGED <<youtubeUrl, isAnalyzing, videoData, showVideoInput,
                   showAuth, showProgress, authMode, demoMode>>
    /\ UNCHANGED <<result, authPageVars, progVars>>

QuizResponse ==
    \E r \in BagToSet(net), status \in Statuses,
       questions \in QuestionLists(MaxQuestions) :
        QuizSettled(r, status, questions)

\* the quiz panel shows the question form
QuizFormShown ==
    /\ Screen = "Workspace" /\ activeTab = "quiz"
    /\ ~isLoadingQuiz
    /\ quizQuestions # Undefined /\ Len(quizQuestions) > 0

\* handleQuizAnswer(questionIndex, answerIndex): a radio button's onChange
HandleQuizAnswer(questionIndex, answerIndex) ==
    /\ QuizFormShown /\ ~quizSubmitted
    /\ questionIndex \in 0 .. Len(quizQuestions) - 1
    /\ quizAnswers' = [i \in DOMAIN quizAnswers \cup {questionIndex} |->
                          IF i = questionIndex THEN answerIndex
                                               ELSE quizAnswers[i]]
    /\ quizAnswers' # quizAnswers
    /\ UNCHANGED <<quizQuestions, quizSubmitted, quizScore, isLoadingQuiz,
                   quizFetches, quizCached, activeTab, chatVars, notesVars>>
    /\ UNCHANGED <<authVars, net, result, appVars, authPageVars, progVars>>

\* Math.floor in place of Math.round
ScoreTruncates(correct, total) == (100 * correct) \div total

\* Math.round(correct / total * 100)
Score(correct, total) == (200 * correct + total) \div (2 * total)

\* submitQuiz's forEach: the positions answered with correct_answer
Correct(questions, answers) ==
    Cardinality({i \in 0 .. Len(questions) - 1 :
                    /\ i \in DOMAIN answers
                    /\ answers[i] = questions[i + 1].correct_answer})

\* the Submit Quiz button is disabled while
\* Object.keys(quizAnswers).length < quizQuestions.length
SubmitEnabled ==
    /\ QuizFormShown /\ ~quizSubmitted
    /\ Cardinality(DOMAIN quizAnswers) >= Len(quizQuestions)

\* submitQuiz up to the await: grade, show the result, then record it; the
\* record call's throw without a token is caught and logged
SubmitQuiz ==
    /\ SubmitEnabled
    /\ LET score == Score(Correct(quizQuestions, quizAnswers),
                          Len(quizQuestions))
       IN  /\ quizScore' = score
           /\ quizSubmitted' = TRUE
           /\ IF HasToken
                THEN /\ InFlight < MaxNet
                     /\ Send(Req("recordQuiz", token, FALSE,
                                 <<score, Len(quizQuestions)>>))
                ELSE UNCHANGED net
    /\ UNCHANGED <<quizQuestions, quizAnswers, isLoadingQuiz, quizFetches,
                   quizCached, activeTab, chatVars, notesVars>>
    /\ UNCHANGED <<authVars, result, appVars, authPageVars, progVars>>

\* a continuation that takes the submission back when recording failed
RecordSettledUndoesSubmit(r, status) ==
    /\ r.op = "recordQuiz"
    /\ authenticatedFetchSettled(status)
    /\ Settle(r)
    /\ quizSubmitted' = (status = "ok" /\ quizSubmitted)
    /\ UNCHANGED <<quizQuestions, quizAnswers, quizScore, isLoadingQuiz,
                   quizFetches, quizCached, activeTab, chatVars, notesVars>>
    /\ UNCHANGED <<result, appVars, authPageVars, progVars>>

\* submitQuiz after the await: the response is not read, a throw is logged
RecordSettled(r, status) ==
    /\ r.op = "recordQuiz"
    /\ authenticatedFetchSettled(status)
    /\ Settle(r)
    /\ UNCHANGED <<result, uiVars>>

RecordResponse ==
    \E r \in BagToSet(net), status \in Statuses : RecordSettled(r, status)

\* a retake that also drops the cached questions
ResetQuizDropsQuestions ==
    /\ QuizFormShown /\ quizSubmitted
    /\ quizAnswers' = <<>>
    /\ quizSubmitted' = FALSE
    /\ quizScore' = 0
    /\ quizQuestions' = <<>>
    /\ UNCHANGED <<isLoadingQuiz, quizFetches, quizCached,
                   activeTab, chatVars, notesVars>>
    /\ UNCHANGED <<authVars, net, result, appVars, authPageVars, progVars>>

\* resetQuiz: Take Quiz Again on the result view
ResetQuiz ==
    /\ QuizFormShown /\ quizSubmitted
    /\ quizAnswers' = <<>>
    /\ quizSubmitted' = FALSE
    /\ quizScore' = 0
    /\ UNCHANGED <<quizQuestions, isLoadingQuiz, quizFetches, quizCached,
                   activeTab, chatVars, notesVars>>
    /\ UNCHANGED <<authVars, net, result, appVars, authPageVars, progVars>>

\* chatMessage.trim()
Trim(text) == IF text = " " THEN "" ELSE text

\* the chat input's onChange
SetChatMessage(text) ==
    /\ Screen = "Workspace" /\ activeTab = "chat"
    /\ text # chatMessage
    /\ chatMessage' = text
    /\ UNCHANGED <<chatHistory, activeTab, quizVars, notesVars>>
    /\ UNCHANGED <<authVars, net, result, appVars, authPageVars, progVars>>

\* entries of chatHistory
UserEntry(text) == [role |-> "user", content |-> text]
AssistantEntry(text) == [role |-> "assistant", content |-> text]
\* chat fetches whose continuation will append to this log
ChatInFlight ==
    BagCardinality([r \in {x \in BagToSet(net) : x.op = "chat" /\ ~x.stale}
                       |-> net[r]])

\* handleChat up to the await: the user entry is appended at once and the
\* input cleared; without a token authenticatedFetch throws and the catch
\* appends the fallback entry
HandleChat ==
    /\ Screen = "Workspace" /\ activeTab = "chat"
    /\ Trim(chatMessage) # ""
    /\ Len(chatHistory) + ChatInFlight + 2 <= MaxChat
    /\ chatMessage' = ""
    /\ IF HasToken
         THEN /\ InFlight < MaxNet
              /\ chatHistory' = Append(chatHistory, UserEntry(chatMessage))
              /\ Send(Req("chat", token, FALSE, <<chatMessage>>))
         ELSE /\ chatHistory' = chatHistory \o
                    <<UserEntry(chatMessage), AssistantEntry(Fallback)>>
              /\ UNCHANGED net
    /\ UNCHANGED <<activeTab, quizVars, notesVars>>
    /\ UNCHANGED <<authVars, result, appVars, authPageVars, progVars>>

\* a catch that takes the last entry back instead of appending the fallback
ChatSettledDropsOnFailure(r, status) ==
    /\ r.op = "chat"
    /\ authenticatedFetchSettled(status)
    /\ Settle(r)
    /\ chatHistory' =
          IF r.stale THEN chatHistory
          ELSE IF status = "ok"
            THEN Append(chatHistory, AssistantEntry("answer"))
            ELSE SubSeq(chatHistory, 1, Len(chatHistory) - 1)
    /\ UNCHANGED <<chatMessage, activeTab, quizVars, notesVars>>
    /\ UNCHANGED <<result, appVars, authPageVars, progVars>>

\* handleChat after the await: data.answer of any JSON body becomes the
\* assistant entry, every throw becomes the fallback entry
ChatSettled(r, status) ==
    /\ r.op = "chat"
    /\ authenticatedFetchSettled(status)
    /\ Settle(r)
    /\ chatHistory' =
          IF r.stale THEN chatHistory
          ELSE Append(chatHistory,
                      CASE status = "ok" -> AssistantEntry("answer")
                        [] status = "errJson" -> AssistantEntry("undefined")
                        [] OTHER -> AssistantEntry(Fallback))
    /\ UNCHANGED <<chatMessage, activeTab, quizVars, notesVars>>
    /\ UNCHANGED <<result, appVars, authPageVars, progVars>>

ChatResponse ==
    \E r \in BagToSet(net), status \in Statuses : ChatSettled(r, status)

\* loadNotes after the await: data.notes || [] of any JSON body goes to
\* setNotes, the finally clears isLoadingNotes
NotesSettled(r, status, list) ==
    /\ r.op = "notes"
    /\ authenticatedFetchSettled(status)
    /\ Settle(r)
    /\ IF r.stale
         THEN UNCHANGED notesVars
         ELSE /\ notes' = CASE status = "ok" -> list
                            [] status = "errJson" -> <<>>
                            [] OTHER -> notes
              /\ isLoadingNotes' = FALSE
              /\ notesLoaded' = (notesLoaded \/ status = "ok")
              /\ UNCHANGED <<newNote, notesFetches, notesRefetches,
                             deletedIds>>
    /\ UNCHANGED <<activeTab, chatVars, quizVars>>
    /\ UNCHANGED <<result, appVars, authPageVars, progVars>>

NotesResponse ==
    \E r \in BagToSet(net), status \in Statuses, list \in NoteLists :
        NotesSettled(r, status, list)

\* the note textarea's onChange
SetNewNote(text) ==
    /\ Screen = "Workspace" /\ activeTab = "notes"
    /\ text # newNote
    /\ newNote' = text
    /\ UNCHANGED <<notes, isLoadingNotes, notesFetches, notesLoaded,
                   notesRefetches, deletedIds, activeTab, chatVars,
                   quizVars>>
    /\ UNCHANGED <<authVars, net, result, appVars, authPageVars, progVars>>

\* saveNote up to the await: the continuation closes over the notes of the
\* render the click came from; without a token authenticatedFetch throws and
\* the catch logs it
SaveNote ==
    /\ Screen = "Workspace" /\ activeTab = "notes"
    /\ Trim(newNote) # ""
    /\ Len(notes) < MaxNotes
    /\ IF HasToken
         THEN /\ InFlight < MaxNet
              /\ Send(Req("saveNote", token, FALSE, <<notes, newNote>>))
         ELSE UNCHANGED net
    /\ UNCHANGED <<authVars, result, uiVars>>

\* saveNote after the await: the JSON body of any response that is not a
\* 401 is put in front of the notes closed over and the textarea is cleared
SaveSettled(r, status, id) ==
    /\ r.op = "saveNote"
    /\ authenticatedFetchSettled(status)
    /\ Settle(r)
    /\ IF ~r.stale /\ status \in {"ok", "errJson"}
         THEN /\ notes' = <<IF status = "ok" THEN Note(id, r.arg[2])
                                              ELSE ErrorBody>> \o r.arg[1]
              /\ newNote' = ""
         ELSE UNCHANGED <<notes, newNote>>
    /\ UNCHANGED <<isLoadingNotes, notesFetches, notesLoaded, notesRefetches,
                   deletedIds,
                   activeTab, chatVars, quizVars>>
    /\ UNCHANGED <<result, appVars, authPageVars, progVars>>

\* the store assigns an id that no note shown or closed over carries and
\* that it has not assigned to a note deleted since
SaveResponse ==
    \E r \in BagToSet(net), status \in Statuses, id \in NoteIds :
        /\ r.op = "saveNote"
        /\ \A i \in DOMAIN notes : notes[i].id # id
        /\ \A i \in DOMAIN r.arg[1] : r.arg[1][i].id # id
        /\ id \notin deletedIds
        /\ SaveSettled(r, status, id)

\* notes.filter(note => note.id !== noteId)
WithoutNote(list, noteId) == SelectSeq(list, LAMBDA note : note.id # noteId)

\* deleteNote(noteId) up to the await: Delete Note of a listed note
DeleteNote(noteId) ==
    /\ Screen = "Workspace" /\ activeTab = "notes"
    /\ ~isLoadingNotes
    /\ \E i \in DOMAIN notes : notes[i].id = noteId
    /\ IF HasToken
         THEN /\ InFlight < MaxNet
              /\ Send(Req("deleteNote", token, FALSE, <<notes, noteId>>))
         ELSE UNCHANGED net
    /\ UNCHANGED <<authVars, result, uiVars>>

\* deleteNote after the await: the response is not read; unless
\* authenticatedFetch threw, the notes closed over are filtered by the id
DeleteSettled(r, status) ==
    /\ r.op = "deleteNote"
    /\ authenticatedFetchSettled(status)
    /\ Settle(r)
    /\ notes' = IF ~r.stale /\ status \in {"ok", "errJson", "errNoJson"}
                  THEN WithoutNote(r.arg[1], r.arg[2])
                  ELSE notes
    /\ UNCHANGED <<newNote, isLoadingNotes, notesFetches, notesLoaded,
                   notesRefetches, activeTab, chatVars, quizVars>>
    /\ deletedIds' = IF ~r.stale /\ status = "ok"
                       THEN deletedIds \cup {r.arg[2]} ELSE deletedIds
    /\ UNCHANGED <<result, appVars, authPageVars, progVars>>

DeleteResponse ==
    \E r \in BagToSet(net), status \in Statuses : DeleteSettled(r, status)

\* ------------------------------------------------------- specifications
\* App with AuthPage, ProgressDashboard and the chat tab of VideoWorkspace
SelectChatTab == \E tab \in {"summary", "chat"} : SelectTab(tab)
TypeChatMessage == \E text \in {"", "a"} : SetChatMessage(text)

NextApp ==
    \/ SetYoutubeUrl
    \/ HandleAnalyze
    \/ AnalyzeResponse
    \/ HandleSignIn
    \/ HandleGetStarted
    \/ HandleShowProgress
    \/ ContinueAnalysis
    \/ HandleDemoMode
    \/ HandleBackToHome
    \/ SignOut
    \/ Refresh
    \/ ToggleMode
    \/ HandleSubmit
    \/ SubmitResponse
    \/ ProgressResponse
    \/ InsightsResponse
    \/ SelectChatTab
    \/ TypeChatMessage
    \/ HandleChat
    \/ ChatResponse

SpecApp == InitAuth /\ [][NextApp]_vars

\* App showing one VideoWorkspace, opened by an analysis or as the demo,
\* with or without a session
InitMounted ==
    /\ localStorage \in StoredSessions
    /\ token = getItem("authToken")
    /\ user = JSONparse(getItem("user"))
    /\ net = EmptyBag
    /\ result = Returned("constructor", NULL, "none")
    /\ sessionEnd = "none"
    /\ \/ /\ token # NULL
          /\ videoData = "analysis" /\ demoMode = FALSE
          /\ youtubeUrl = "url" /\ showVideoInput = TRUE
       \/ /\ videoData = "demo" /\ demoMode = TRUE
          /\ youtubeUrl = "" /\ showVideoInput = FALSE
    /\ isAnalyzing = FALSE /\ showAuth = FALSE /\ showProgress = FALSE
    /\ authMode = "signin" /\ crashed = FALSE
    /\ InitAuthPage /\ InitProgress

\* one VideoWorkspace from its mount on: the tabs and the quiz
InitQuiz == InitMounted /\ InitWorkspace

SelectQuizTab == \E tab \in {"summary", "chat", "quiz"} : SelectTab(tab)
AnswerQuiz ==
    \E questionIndex \in 0 .. MaxQuestions - 1, answerIndex \in Options :
        HandleQuizAnswer(questionIndex, answerIndex)

NextQuiz ==
    \/ SelectQuizTab
    \/ QuizResponse
    \/ AnswerQuiz
    \/ SubmitQuiz
    \/ RecordResponse
    \/ ResetQuiz

SpecQuiz == InitQuiz /\ [][NextQuiz]_vars

\* one VideoWorkspace from its mount on: the chat tab
InitChat == InitMounted /\ InitWorkspace

TypeChatText == \E text \in {"", " ", "a", "b"} : SetChatMessage(text)

NextChat ==
    \/ SelectChatTab
    \/ TypeChatText
    \/ HandleChat
    \/ ChatResponse

SpecChat == InitChat /\ [][NextChat]_vars

\* one VideoWorkspace from its mount on: the notes tab
InitNotes == InitMounted /\ InitWorkspace

SelectNotesTab == \E tab \in {"summary", "notes"} : SelectTab(tab)
TypeNote == \E text \in {"", "n"} : SetNewNote(text)
ClickDeleteNote == \E noteId \in NoteIds \cup {ErrorBody.id} : DeleteNote(noteId)

NextNotes ==
    \/ SelectNotesTab
    \/ NotesResponse
    \/ TypeNote
    \/ SaveNote
    \/ SaveResponse
    \/ ClickDeleteNote
    \/ DeleteResponse

SpecNotes == InitNotes /\ [][NextNotes]_vars

\* quizAnswers objects: an option index under some of the keys 0 .. n-1
AnswerMaps(n) == UNION {[S -> Options] : S \in SUBSET (0 .. n - 1)}

\* the quiz panel of one VideoWorkspace showing the question form: any
\* question list of a /quiz response and any answers the radio buttons have
\* recorded, also under keys of a longer list that a later response replaced
InitGrade ==
    /\ InitMounted
    /\ token \in {NULL, "t1"} /\ user \in {NULL, "u1"}
    /\ demoMode = (token = NULL)
    /\ activeTab = "quiz"
    /\ quizQuestions \in QuestionLists(MaxGraded) \ {<<>>}
    /\ quizAnswers \in AnswerMaps(MaxGraded)
    /\ quizSubmitted = FALSE /\ quizScore = 0 /\ isLoadingQuiz = FALSE
    /\ quizFetches = 1 /\ quizCached = TRUE
    /\ chatMessage = "" /\ chatHistory = <<>>
    /\ notes = <<>> /\ newNote = "" /\ isLoadingNotes = FALSE
    /\ notesFetches = 0 /\ notesLoaded = FALSE /\ notesRefetches = 0
    /\ deletedIds = {}

LeaveOrShowQuiz == \E tab \in {"summary", "quiz"} : SelectTab(tab)
AnswerGraded ==
    \E questionIndex \in 0 .. MaxGraded - 1, answerIndex \in Options :
        HandleQuizAnswer(questionIndex, answerIndex)

NextGrade ==
    \/ LeaveOrShowQuiz
    \/ AnswerGraded
    \/ SubmitQuiz
    \/ RecordResponse
    \/ ResetQuiz

SpecGrade == InitGrade /\ [][NextGrade]_vars

\* the session as held in memory and in the durable store
Session == <<token, user, localStorage>>
NoSession == <<NULL, NULL, [authToken |-> NULL, user |-> NULL]>>

\* ------------------------------------------------------------------- C1
\* C1: after logout(), until the next successful login or register, no token
\* is held and every authenticatedFetch call throws 'No authentication
\* token' without putting a request on the network.
C1_NoSessionAfterLogout ==
    [][sessionEnd # "none" =>
          /\ token = NULL
          /\ AuthenticatedFetch =>
                /\ result' = Threw("authenticatedFetch", NoTokenError, "none")
                /\ net' = net]_vars

\* authenticatedFetch was called after a logout and threw the no-session error
C1_Witness ==
    /\ sessionEnd = "logout"
    /\ result = Threw("authenticatedFetch", NoTokenError, "none")

\* ------------------------------------------------------------------- C2
\* C2: a 401 makes authenticatedFetch clear the session (memory and both
\* storage keys) and throw 'Authentication expired'; a call that holds a
\* token issues one request and its continuation issues none (no retry);
\* any other response is returned with the session untouched.
C2_ExpiryClearsSessionNoRetry ==
    [][/\ (AuthenticatedFetch /\ HasToken) => InFlight' = InFlight + 1
       /\ AuthenticatedFetchResponse =>
             /\ InFlight' = InFlight - 1
             /\ IF result'.status = "unauthorized"
                  THEN /\ Session' = NoSession
                       /\ result' = Threw("authenticatedFetch", ExpiredError,
                                          "unauthorized")
                  ELSE /\ Session' = Session
                       /\ result'.status # "netfail" =>
                              result' = Returned("authenticatedFetch",
                                                 "response", result'.status)]_vars

\* a session was held and a 401 cleared it
C2_Witness ==
    /\ result = Threw("authenticatedFetch", ExpiredError, "unauthorized")
    /\ Session = NoSession

\* ------------------------------------------------------------------- C3
\* C3: register and login leave the session alone until a success response;
\* on success token and user, in memory and in storage, are those of the
\* response; on a rejection or transport failure the call throws and the
\* session is as it was.
C3_SessionOnlyOnSuccess ==
    [][/\ (Register \/ Login) => Session' = Session
       /\ RegisterLoginResponse =>
             IF result'.status = "ok"
               THEN /\ result'.how = "returned"
                    /\ token' = result'.val
                    /\ user' = result'.who
                    /\ getItem("authToken")' = result'.val
                    /\ JSONparse(getItem("user"))' = result'.who
                    /\ token' \in Tokens /\ user' \in Users
               ELSE /\ result'.how = "threw"
                    /\ Session' = Session]_vars

\* a login succeeded and its token is the one held
C3_Witness ==
    /\ result.op = "login" /\ result.how = "returned"
    /\ token = result.val /\ user = result.who

\* ------------------------------------------------------------------- C4
\* C4: getCurrentUser without a token returns null and sends nothing; with a
\* token, every outcome but a success response clears the session and
\* returns null, and a success response returns and stores the user record.
C4_CurrentUser ==
    [][/\ (GetCurrentUser /\ ~HasToken) =>
             /\ result' = Returned("getCurrentUser", NULL, "none")
             /\ net' = net
       /\ GetCurrentUserResponse =>
             IF result'.status = "ok"
               THEN /\ result'.val \in Users
                    /\ user' = result'.val
                    /\ JSONparse(getItem("user"))' = result'.val
                    /\ token' = token
               ELSE /\ result'.val = NULL
                    /\ Session' = NoSession]_vars

\* an identity check failed while a token was held and cleared the session
C4_Witness ==
    /\ result.op = "getCurrentUser"
    /\ result.status \in Statuses \ {"ok"}
    /\ result.val = NULL
    /\ Session = NoSession

\* ------------------------------------------------------------------- C5
\* authenticated calls of App and of the chat tab that the user starts
AuthDependentAction == HandleAnalyze \/ HandleChat

\* a 401 reaches the continuation of an authenticated call
ExpiryReceived ==
    \E r \in BagToSet(net) :
        \/ AnalyzeSettled(r, "unauthorized")
        \/ ChatSettled(r, "unauthorized")
        \/ ProgressSettled(r, "unauthorized")
        \/ InsightsSettled(r, "unauthorized")

\* C5: every authenticated call that receives a 401 (a) clears the token,
\* and (b) once the session has expired the next user action that needs
\* authentication moves the workflow to Auth(signin).
C5_ExpiryPropagates ==
    [][/\ ExpiryReceived => token' = NULL
       /\ (sessionEnd = "expired" /\ AuthDependentAction) =>
             (Screen' = "Auth" /\ authMode' = "signin")]_vars

\* ------------------------------------------------------------------- C6
\* an analyze fetch settles with an error status other than 401 or fails in
\* transport
AnalyzeFailedOther(r) ==
    \E status \in {"errJson", "errNoJson", "netfail"} : AnalyzeSettled(r, status)

\* C6: an analyze call from VideoInput that fails for another reason than
\* expiry leaves the workflow on VideoInput, creates no AnalysisSession and
\* clears isAnalyzing.
C6_AnalyzeFailureStaysOnVideoInput ==
    [][\A r \in BagToSet(net) :
          (Screen = "VideoInput" /\ AnalyzeFailedOther(r)) =>
             /\ Screen' = "VideoInput"
             /\ videoData' = NULL
             /\ ~isAnalyzing']_vars

\* ------------------------------------------------------------------- C7
\* C7: the response to an analyze request whose screen the user left with
\* Back is not applied: the displayed screen stays the one navigated to.
C7_StaleAnalyzeNotApplied ==
    [][\A r \in BagToSet(net), status \in Statuses :
          (r.stale /\ AnalyzeSettled(r, status)) => Screen' = Screen]_vars

\* ------------------------------------------------------------------- C8
\* analyze fetches in flight
AnalyzeInFlight ==
    BagCardinality([r \in {x \in BagToSet(net) : x.op = "analyze"} |-> net[r]])

\* C8: at most one analyze request is in flight, and while one is in flight
\* isAnalyzing is set, so the Analyze button is disabled, also after Back
\* and a return to the URL screen.
C8_SingleAnalyzeInFlight ==
    /\ AnalyzeInFlight <= 1
    /\ AnalyzeInFlight = 1 => isAnalyzing

\* the user left the URL screen and came back while the request is pending:
\* a URL is entered and the button is still disabled
C8_Witness ==
    /\ Screen = "VideoInput" /\ youtubeUrl # "" /\ isAnalyzing
    /\ \E r \in BagToSet(net) : r.op = "analyze" /\ r.stale
    /\ InFlight < MaxNet /\ HasToken

\* ------------------------------------------------------------------- C9
\* C9: in one workspace whose session stays valid, however often the quiz
\* tab is selected, exactly one questions fetch has been issued.
C9_OneQuizFetch ==
    (activeTab = "quiz" /\ HasToken /\ sessionEnd = "none") => quizFetches = 1

\* ------------------------------------------------------------------ C10
\* C10: once a non-empty question list was cached in the workspace, no later
\* step issues a questions fetch.
C10_NoFetchOnceCached ==
    [][quizCached => quizFetches' <= quizFetches]_vars

\* ------------------------------------------------------------------ C11
\* C11: from the first state in which the workspace holds a non-empty
\* question list, the list keeps its value for as long as the workspace is
\* mounted; only answers, submitted and score change.
C11_QuestionsImmutable ==
    [][(/\ Screen = "Workspace" /\ Screen' = "Workspace"
        /\ quizQuestions # <<>> /\ quizQuestions # Undefined)
          => quizQuestions' = quizQuestions]_vars

C13_SubmitGate ==
    SubmitEnabled =>
        \A i \in 0 .. Len(quizQuestions) - 1 : i \in DOMAIN quizAnswers

\* ------------------------------------------------------------------ C14
\* C14: a submit sets score and submitted and makes one record-result call
\* that carries the score and the question count (without a token the call
\* throws before any request); whatever the call's outcome, it changes none
\* of score, submitted, answers, questions, active tab and screen, and it
\* issues no further request.
C14_FireAndForget ==
    [][/\ SubmitQuiz =>
             /\ quizSubmitted'
             /\ net' = IF HasToken
                         THEN net (+) SetToBag({Req("recordQuiz", token, FALSE,
                                  <<quizScore', Len(quizQuestions)>>)})
                         ELSE net
       /\ RecordResponse =>
             /\ UNCHANGED <<quizScore, quizSubmitted, quizAnswers,
                            quizQuestions, activeTab>>
             /\ Screen' = Screen
             /\ InFlight' = InFlight - 1]_vars

\* the only /quiz fetch succeeded, the quiz was submitted and the record
\* call was answered 401: the result view is still shown
C14_Witness ==
    /\ quizSubmitted /\ QuizFormShown
    /\ quizFetches = 1 /\ net = EmptyBag
    /\ sessionEnd = "expired"

\* ------------------------------------------------------------------ C15
\* C15: retake sets answers to the empty mapping, submitted to false and
\* score to 0, keeps the cached question list and issues no request.
C15_Retake ==
    [][ResetQuiz =>
          /\ quizAnswers' = <<>> /\ ~quizSubmitted' /\ quizScore' = 0
          /\ quizQuestions' = quizQuestions
          /\ net' = net /\ quizFetches' = quizFetches]_vars

\* a submitted quiz, whose record call is still in flight, was reset: the
\* empty form over the same questions is shown
C15_Witness ==
    /\ QuizFormShown /\ ~quizSubmitted
    /\ quizAnswers = <<>> /\ quizScore = 0
    /\ \E r \in BagToSet(net) : r.op = "recordQuiz"

\* ------------------------------------------------------------------ C16
\* the user-authored entries of a chat log, in log order
IsUserEntry(e) == e.role = "user"
UserEntries(h) == SelectSeq(h, IsUserEntry)

\* C16: a send of non-blank text appends its user entry in the same step,
\* and no other step of the workspace (a response arriving in any order,
\* successful or failed) removes or reorders the user entries.
C16_NoUserEntryLost ==
    [][(Screen = "Workspace" /\ Screen' = "Workspace") =>
          IF HandleChat
            THEN /\ chatHistory'[Len(chatHistory) + 1] = UserEntry(chatMessage)
                 /\ UserEntries(chatHistory') =
                       Append(UserEntries(chatHistory), UserEntry(chatMessage))
            ELSE UserEntries(chatHistory') = UserEntries(chatHistory)]_vars

\* "a" then "b" were sent before either resolved, then one call failed and
\* one succeeded: both user entries are in the log in send order
C16_Witness ==
    /\ Len(chatHistory) = 4
    /\ chatHistory[1] = UserEntry("a") /\ chatHistory[2] = UserEntry("b")
    /\ \E i \in 3 .. 4 : chatHistory[i] = AssistantEntry(Fallback)
    /\ \E i \in 3 .. 4 : chatHistory[i] = AssistantEntry("answer")

\* ------------------------------------------------------------------ C17
\* C17: a chat send issues one request (none without a token, where the
\* fallback entry follows at once); when the request resolves, one assistant
\* entry is appended and nothing is sent again; on every failure that entry
\* is the fixed fallback message.
C17_OneAssistantEntryFallbackOnFailure ==
    [][/\ HandleChat =>
             IF HasToken
               THEN /\ InFlight' = InFlight + 1
                    /\ chatHistory' = Append(chatHistory, UserEntry(chatMessage))
               ELSE /\ net' = net
                    /\ chatHistory' = chatHistory \o
                          <<UserEntry(chatMessage), AssistantEntry(Fallback)>>
       /\ \A r \in BagToSet(net), status \in Statuses :
             (~r.stale /\ ChatSettled(r, status)) =>
                 /\ InFlight' = InFlight - 1
                 /\ Len(chatHistory') = Len(chatHistory) + 1
                 /\ SubSeq(chatHistory', 1, Len(chatHistory)) = chatHistory
                 /\ chatHistory'[Len(chatHistory')].role = "assistant"
                 /\ status # "ok" =>
                       chatHistory'[Len(chatHistory')] = AssistantEntry(Fallback)]_vars

\* ------------------------------------------------------------------ C18
\* C18: a note leaves the local list only when the delete call for its id
\* succeeded; on an error status or a failed call the list is unchanged.
C18_DeleteNeedsConfirmation ==
    [][\A r \in BagToSet(net), status \in Statuses \ {"ok"} :
          (~r.stale /\ DeleteSettled(r, status)) => notes' = notes]_vars

\* ------------------------------------------------------------------ C19
\* C19: the list gains an entry only when a create call succeeded, and then
\* the record the store returned is put at the head of the list; while the
\* call is pending, and when it is rejected or fails, the list is unchanged.
C19_CreateNotOptimistic ==
    [][/\ SaveNote => notes' = notes
       /\ \A r \in BagToSet(net), status \in Statuses, id \in NoteIds :
             (~r.stale /\ SaveSettled(r, status, id)) =>
                 notes' = IF status = "ok"
                            THEN <<Note(id, r.arg[2])>> \o notes
                            ELSE notes]_vars

\* ------------------------------------------------------------------ C20
\* C20: once a list-notes request of the workspace has succeeded, at most
\* one more list-notes request is issued, whatever the list it returned and
\* whatever the list has become since.
C20_NotesFetchedOnce == notesRefetches <= 1

C22_VideoInputOnlyByAuthOrContinue ==
    [][(Screen # "VideoInput" /\ Screen' = "VideoInput") =>
          \/ ContinueAnalysis /\ HasToken
          \/ /\ Screen = "Auth"
             /\ \E r \in BagToSet(net), t \in Tokens, u \in Users :
                   ~r.stale /\ SubmitSettled(r, "ok", t, u)]_vars

\* ------------------------------------------------------------------ C23
\* C23: after every step of register, login, logout, getCurrentUser and
\* authenticatedFetch the stored token key is the token held and the stored
\* user key parses to the user held, so an AuthService constructed on a
\* reload holds the token and the user the old instance held.
C23_SessionSurvivesReload ==
    [][/\ token' = getItem("authToken")'
       /\ user' = JSONparse(getItem("user"))'
       /\ Reload => (token' = token /\ user' = user)]_vars

\* a page was reloaded after a 401 had ended the session: the new instance
\* holds no session either
C23_Witness ==
    /\ result.op = "constructor" /\ sessionEnd = "expired"
    /\ Session = NoSession

\* ------------------------------------------------------------------ C24
\* C24: when a quiz fetch of a workspace without questions fails (401, other
\* error status, transport failure), the question list is still empty,
\* isLoadingQuiz is false, and chat log, notes and active tab are as before.
C24_QuizFailureBackToNotLoaded ==
    [][\A r \in BagToSet(net), status \in Statuses \ {"ok"},
          questions \in QuestionLists(MaxQuestions) :
          (~r.stale /\ quizQuestions = <<>>
                    /\ QuizSettled(r, status, questions)) =>
              /\ Screen' = "Workspace"
              /\ quizQuestions' = <<>>
              /\ ~isLoadingQuiz'
              /\ UNCHANGED <<chatHistory, notes, activeTab>>]_vars

\* ------------------------------------------------------------------ C25
\* C25: from an empty store on, the token is null exactly when the user is
\* null, in memory and in the store.
C25_NoIdentityWithoutToken ==
    /\ token = NULL <=> user = NULL
    /\ getItem("authToken") = NULL <=> getItem("user") = NULL

\* ------------------------------------------------------------------ C26
\* C26: a 401 answer to a request that carried a token other than the one
\* now held leaves the session alone.
C26_ExpiryOfOldTokenKeepsNewSession ==
    [][\A r \in BagToSet(net) :
          (/\ r.op = "authenticatedFetch" /\ r.tok # token
           /\ net' = net (-) SetToBag({r})
           /\ result' = Threw("authenticatedFetch", ExpiredError,
                              "unauthorized"))
              => Session' = Session]_vars

\* ------------------------------------------------------------------ C27
\* C27: whenever the URL screen or the progress dashboard is displayed, a
\* session token is held.
C27_TokenHeldOnSignedInScreens ==
    Screen \in {"VideoInput", "Progress"} => HasToken

\* ------------------------------------------------------------------ C28
\* C28: a displayed workspace is marked as demo only when its videoData is
\* the built-in demo data.
C28_DemoFlagOnlyForDemoData ==
    (Screen = "Workspace" /\ demoMode) => videoData = "demo"

\* ------------------------------------------------------------------ C29
\* C29: a note whose deletion the store confirmed does not come back into
\* the local list when a pending create or delete call resolves.
C29_DeletedNoteStaysDeleted ==
    [][((SaveResponse \/ DeleteResponse)
          /\ \A i \in DOMAIN notes : notes[i].id \notin deletedIds)
          => \A i \in DOMAIN notes' : notes'[i].id \notin deletedIds']_vars

\* ------------------------------------------------------------------ C30
\* C30: a create call that succeeds adds its note and loses none of the
\* created or fetched notes the list holds, whatever resolved before it.
C30_NoCreatedNoteLost ==
    [][\A r \in BagToSet(net), id \in NoteIds :
          (~r.stale /\ SaveSettled(r, "ok", id)) =>
              /\ \E j \in DOMAIN notes' : notes'[j].id = id
              /\ \A i \in DOMAIN notes :
                    notes[i].id \in NoteIds =>
                        \E j \in DOMAIN notes' : notes'[j] = notes[i]]_vars

====
